---- MODULE Spec2Model ----
(***************************************************************************)
(* calculatePatientData (src/src/services/dataCalculator.js) as a state   *)
(* machine: the store tables, the handler's locals, and one action per    *)
(* awaited store query together with the synchronous code that follows it *)
(* up to the next await.                                                   *)
(*                                                                         *)
(* Time is counted in whole seconds since Jan 1 of EpochYear, 00:00 UTC.   *)
(* A bound written in the code with milliseconds 999 (23:59:59.999) is    *)
(* the last second of its day: at millisecond resolution "t <= 23:59:59.999"*)
(* and "second(t) <= 23:59:59" select the same instants.                   *)
(***************************************************************************)
EXTENDS Integers, Sequences, FiniteSets, TLC

(***************************************************************************)
(* Null values.  TLC cannot compare values of different kinds, so each     *)
(* kind of column has its own null: ids are >= 0 and use -1, texts use a   *)
(* reserved string, a price is a sequence of characters and its null is    *)
(* the text "null" that parseFloat(null) parses, and a nullable object is  *)
(* the empty sequence or a one-element sequence.                           *)
(***************************************************************************)
NullId == -1
NullStr == "<null>"
NullPrice == <<"n", "u", "l", "l">>
None == << >>
Some(x) == << x >>

\* ------------------------------------------------------------------ time

EpochYear == 2022
SecPerHour == 3600
SecPerDay == 86400

IsLeap(y) == (y % 4 = 0 /\ y % 100 # 0) \/ y % 400 = 0

DaysInYear(y) == IF IsLeap(y) THEN 366 ELSE 365

\* m is zero-based, as the month argument of the JS Date constructor
DaysInMonth(y, m) ==
  CASE m = 1 -> IF IsLeap(y) THEN 29 ELSE 28
    [] m \in {3, 5, 8, 10} -> 30
    [] OTHER -> 31

RECURSIVE DaysBeforeMonth(_, _)
DaysBeforeMonth(y, m) ==
  IF m = 0 THEN 0 ELSE DaysBeforeMonth(y, m - 1) + DaysInMonth(y, m - 1)

RECURSIVE DaysBeforeYear(_)
DaysBeforeYear(y) ==
  IF y <= EpochYear THEN 0 ELSE DaysBeforeYear(y - 1) + DaysInYear(y - 1)

\* the instant of a UTC wall-clock time
DateUTC(y, m, d, hh, mi, ss) ==
  (DaysBeforeYear(y) + DaysBeforeMonth(y, m) + (d - 1)) * SecPerDay
    + hh * SecPerHour + mi * 60 + ss

\* new Date(y, m, d, hh, mi, ss): the instant of a wall-clock time of the
\* server's zone, which is off hours east of UTC (local = UTC + off)
NewDate(off, y, m, d, hh, mi, ss) == DateUTC(y, m, d, hh, mi, ss) - off * SecPerHour

\* date.toISOString().split('T')[0]: the UTC calendar day of an instant
DateKey(t) == t \div SecPerDay

\* new Date('YYYY-MM-DD'): a date-only text is parsed as UTC midnight
ParseDateKey(k) == k * SecPerDay

\* date.setHours(hh, mi, ss): the same local calendar day, at the given local time
SetHours(off, t, hh, mi, ss) ==
  ((t + off * SecPerHour) \div SecPerDay) * SecPerDay
    + hh * SecPerHour + mi * 60 + ss - off * SecPerHour

\* ------------------------------------------------------------------ helpers

RECURSIVE SumSeq(_)
SumSeq(s) == IF s = << >> THEN 0 ELSE Head(s) + SumSeq(Tail(s))

Range(s) == { s[i] : i \in DOMAIN s }

\* the distinct values of s in order of first occurrence
RECURSIVE FirstSeen(_)
FirstSeen(s) ==
  IF s = << >> THEN << >>
  ELSE LET r == FirstSeen(SubSeq(s, 1, Len(s) - 1))
           x == s[Len(s)]
       IN IF x \in Range(r) THEN r ELSE Append(r, x)

CountOf(s, x) == Cardinality({ i \in DOMAIN s : s[i] = x })

\* the elements of a finite set of integers in ascending order
RECURSIVE Ascending(_)
Ascending(S) ==
  IF S = {} THEN << >>
  ELSE LET m == CHOOSE x \in S : \A y \in S : x <= y
       IN << m >> \o Ascending(S \ {m})

Digits == {"0", "1", "2", "3", "4", "5", "6", "7", "8", "9"}

DigitValue(c) ==
  CASE c = "0" -> 0 [] c = "1" -> 1 [] c = "2" -> 2 [] c = "3" -> 3 [] c = "4" -> 4
    [] c = "5" -> 5 [] c = "6" -> 6 [] c = "7" -> 7 [] c = "8" -> 8 [] c = "9" -> 9

\* the longest prefix of a text that consists of digits
RECURSIVE DigitPrefix(_)
DigitPrefix(s) ==
  IF s = << >> \/ Head(s) \notin Digits THEN << >>
  ELSE << Head(s) >> \o DigitPrefix(Tail(s))

RECURSIVE DigitsValue(_)
DigitsValue(s) ==
  IF s = << >> THEN 0
  ELSE DigitsValue(SubSeq(s, 1, Len(s) - 1)) * 10 + DigitValue(s[Len(s)])

NaN == -1

\* parseFloat(text): the number written by the longest numeric prefix, NaN
\* when there is none (prices are non-negative whole amounts here)
ParseFloat(s) == IF DigitPrefix(s) = << >> THEN NaN ELSE DigitsValue(DigitPrefix(s))

\* parseFloat(x) || 0
ParsePrice(p) == IF ParseFloat(p) = NaN THEN 0 ELSE ParseFloat(p)

\* ------------------------------------------------------------------ state

VARIABLES
  profiles,      \* table profiles: rows [id, first_name, last_name]
  purchase,      \* table purchase: rows [id, purchase_user, created_at]
  list,          \* table list: rows [id, name, created_at, owner_user_id]
  list_item,     \* table list_item: rows [id, purchase_id, list_id, title, price,
                 \*   thumbnail_url, created_at, suggested_by]
  history,       \* the states the store had before each write of another process
  req,           \* None when the handler is called directly, or Some(the HTTP
                 \*   request [patientId, year]) with '' for a missing parameter
  off,           \* the server's zone, hours east of UTC
  mayFail,       \* the queries the store may answer with an error
  profileId, year,
  pc,            \* the await the handler is suspended at
  issued,        \* the queries sent so far: [q, ids]
  failed,        \* the queries that were answered with an error
  purchaseIds, listItems,
  lastMinutePurchaseIds, lastMinutePurchases,
  lists, maxListId, maxCount, listWithMostItems,
  userListIds, mostActiveDay, itemsOnDay,
  suggestedGiftCountsArray,
  result,        \* None, or Some(the returned report)
  thrown         \* None, or Some([name, message]) of the error the handler threw

store == << profiles, purchase, list, list_item >>

\* one state of the store
Snapshot == [ profiles |-> profiles, purchase |-> purchase, list |-> list,
              list_item |-> list_item ]
input == << req, off, mayFail, profileId, year >>
locals == << purchaseIds, listItems, lastMinutePurchaseIds, lastMinutePurchases,
             lists, maxListId, maxCount, listWithMostItems, userListIds,
             mostActiveDay, itemsOnDay, suggestedGiftCountsArray >>
vars == << store, history, input, pc, issued, failed, locals, result, thrown >>

\* ------------------------------------------------------------------ windows

yearStart == NewDate(off, year, 0, 1, 0, 0, 0)
yearEnd == NewDate(off, year, 11, 31, 23, 59, 59)

lastMinuteStart == NewDate(off, year, 11, 17, 0, 0, 0)
\* lastMinuteEnd a year late: the window runs on past the end of the year
lastMinuteEnd_NextYear == NewDate(off, year + 1, 11, 26, 0, 0, 0)

lastMinuteEnd == NewDate(off, year, 11, 26, 0, 0, 0)

\* InYear with .lt in place of .lte: the last second of the year is left out
InYear_EndExclusive(t) == yearStart <= t /\ t < yearEnd

InYear(t) == yearStart <= t /\ t <= yearEnd

\* ------------------------------------------------------------------ reducers

\* a JS truth test of an id column: null and 0 are falsy
TruthyId(x) == x # NullId /\ x # 0

\* a JS truth test of a text column: null and '' are falsy
TruthyStr(x) == x # NullStr /\ x # ""

\* listItems.reduce((sum, item) => sum + (parseFloat(item.price) || 0), 0)
spentOf(items) == SumSeq([ i \in DOMAIN items |-> ParsePrice(items[i].price) ])
spent == spentOf(listItems)

\* listItems.reduce((max, item) => itemPrice > maxPrice ? item : max, listItems[0])
\* ReduceMax with >= in place of >: the last item of greatest price is kept
RECURSIVE ReduceMax_LastWins(_)
ReduceMax_LastWins(items) ==
  IF Len(items) = 1 THEN items[1]
  ELSE LET max == ReduceMax_LastWins(SubSeq(items, 1, Len(items) - 1))
           item == items[Len(items)]
       IN IF ParsePrice(item.price) >= ParsePrice(max.price) THEN item ELSE max

RECURSIVE ReduceMax(_)
ReduceMax(items) ==
  IF Len(items) = 1 THEN items[1]
  ELSE LET max == ReduceMax(SubSeq(items, 1, Len(items) - 1))
           item == items[Len(items)]
       IN IF ParsePrice(item.price) > ParsePrice(max.price) THEN item ELSE max

mostExpensiveOf(items) == IF Len(items) > 0 THEN Some(ReduceMax(items)) ELSE None
mostExpensiveItem == mostExpensiveOf(listItems)

\* an integer-like property name that ECMAScript enumerates as an array index
\* (0 .. 2^32 - 2; every non-negative id of the model is one)
IsArrayIndex(k) == k >= 0

\* OwnKeys as a Map would enumerate them: every key in insertion order
OwnKeys_InsertionOrder(keys) == keys

\* the own property names of an object whose keys were inserted in the order
\* keys: array indices ascending, then the other names in insertion order
OwnKeys(keys) ==
  Ascending({ k \in Range(keys) : IsArrayIndex(k) })
    \o SelectSeq(keys, LAMBDA k : ~IsArrayIndex(k))

\* Object.entries of the counting object built by one pass over ks
CountEntries(ks) ==
  LET names == OwnKeys(FirstSeen(ks))
  IN [ i \in DOMAIN names |-> [key |-> names[i], count |-> CountOf(ks, names[i])] ]

\* entries.forEach(e => { if (e.count > maxCount) { maxCount = e.count; max = e } })
RECURSIVE MaxByCount(_)
MaxByCount(entries) ==
  IF entries = << >> THEN None
  ELSE LET prev == MaxByCount(SubSeq(entries, 1, Len(entries) - 1))
           e == entries[Len(entries)]
       IN IF e.count > (IF prev = None THEN 0 ELSE prev[1].count) THEN Some(e) ELSE prev

\* lists.find(l => l.id === maxListId), then the reported object
ListWithMost(ls, best) ==
  IF best = None \/ ~TruthyId(best[1].key) THEN None
  ELSE LET found == SelectSeq(ls, LAMBDA l : l.id = best[1].key)
       IN IF found = << >> THEN None
          ELSE Some([ id |-> found[1].id,
                      name |-> IF TruthyStr(found[1].name) THEN found[1].name
                               ELSE "Unnamed List",
                      itemCount |-> best[1].count ])

\* the items the day grouping counts: created_at set and suggested_by falsy
Counted(items) == SelectSeq(items, LAMBDA it : ~TruthyId(it.suggested_by))

\* Object.values(itemsByDate): date keys are texts, kept in insertion order
DayEntries(items) ==
  LET own == Counted(items)
      days == FirstSeen([ i \in DOMAIN own |-> DateKey(own[i].created_at) ])
      First(d) == SelectSeq(own, LAMBDA it : DateKey(it.created_at) = d)[1]
  IN [ i \in DOMAIN days |->
         [ date |-> days[i],
           datetime |-> First(days[i]).created_at,
           count |-> Cardinality({ j \in DOMAIN own : DateKey(own[j].created_at) = days[i] }) ] ]

\* SortByCountDesc with the comparator reversed (a.count - b.count): ascending
RECURSIVE SortByCountDesc_Ascending(_)
SortByCountDesc_Ascending(s) ==
  IF s = << >> THEN << >>
  ELSE LET rest == SortByCountDesc_Ascending(Tail(s))
           x == Head(s)
           k == Cardinality({ i \in DOMAIN rest : rest[i].count < x.count })
       IN SubSeq(rest, 1, k) \o << x >> \o SubSeq(rest, k + 1, Len(rest))

\* array.sort((a, b) => b.count - a.count): stable, descending by count
RECURSIVE SortByCountDesc(_)
SortByCountDesc(s) ==
  IF s = << >> THEN << >>
  ELSE LET rest == SortByCountDesc(Tail(s))
           x == Head(s)
           k == Cardinality({ i \in DOMAIN rest : rest[i].count > x.count })
       IN SubSeq(rest, 1, k) \o << x >> \o SubSeq(rest, k + 1, Len(rest))

\* .order('created_at', { ascending: true }), rows of equal time in table order
RECURSIVE SortByCreatedAt(_)
SortByCreatedAt(s) ==
  IF s = << >> THEN << >>
  ELSE LET rest == SortByCreatedAt(Tail(s))
           x == Head(s)
           k == Cardinality({ i \in DOMAIN rest : rest[i].created_at < x.created_at })
       IN SubSeq(rest, 1, k) \o << x >> \o SubSeq(rest, k + 1, Len(rest))

NoName == << >>
Unknown == << "Unknown" >>

\* the tally before names are added: one entry per truthy suggester id
SuggestedCounts(gifts) ==
  LET ids == SelectSeq([ i \in DOMAIN gifts |-> gifts[i].suggested_by ], TruthyId)
      entries == CountEntries(ids)
  IN SortByCountDesc([ i \in DOMAIN entries |->
       [ suggested_by |-> entries[i].key, count |-> entries[i].count, name |-> NoName ] ])

\* profileMap[item.suggested_by] || 'Unknown'
WithNames(tally, info) ==
  [ i \in DOMAIN tally |->
      LET rows == SelectSeq(info, LAMBDA p : p.id = tally[i].suggested_by)
      IN [ tally[i] EXCEPT !.name =
             IF rows = << >> THEN Unknown
             ELSE << rows[Len(rows)].first_name, rows[Len(rows)].last_name >> ] ]

\* ------------------------------------------------------------------ store queries

Query(name, ids) == [ q |-> name, ids |-> ids ]

\* whether the store answers the query `name` with an error
Errors(name) == IF name \in mayFail THEN BOOLEAN ELSE {FALSE}

Ids(rows) == [ i \in DOMAIN rows |-> rows[i].id ]

\* from('purchase').eq('purchase_user', profileId).gte(created_at).lte(created_at)
PurchasesOfYearIn(t) ==
  SelectSeq(t, LAMBDA p : p.purchase_user = profileId /\ InYear(p.created_at))
PurchasesOfYear == PurchasesOfYearIn(purchase)

\* from('list_item').in('purchase_id', ids)
ItemsOfPurchasesIn(t, ids) == SelectSeq(t, LAMBDA it : it.purchase_id \in Range(ids))
ItemsOfPurchases(ids) == ItemsOfPurchasesIn(list_item, ids)

\* from('purchase').eq('purchase_user', profileId).gte(lastMinuteStart).lt(lastMinuteEnd)
PurchasesLastMinuteIn(t) ==
  SelectSeq(t, LAMBDA p : /\ p.purchase_user = profileId
                          /\ lastMinuteStart <= p.created_at
                          /\ p.created_at < lastMinuteEnd)
PurchasesLastMinute == PurchasesLastMinuteIn(purchase)

\* from('list').eq('owner_user_id', profileId).gte(created_at).lte(created_at)
ListsOfYearIn(t) ==
  SelectSeq(t, LAMBDA l : l.owner_user_id = profileId /\ InYear(l.created_at))
ListsOfYear == ListsOfYearIn(list)

\* from('list_item').in('list_id', ids)
ItemsOfListsIn(t, ids) == SelectSeq(t, LAMBDA it : it.list_id \in Range(ids))
ItemsOfLists(ids) == ItemsOfListsIn(list_item, ids)

\* ListsOwned without .eq('owner_user_id', profileId): the lists of every owner
ListsOwned_AnyOwner == list

ListsOwnedIn(t) == SelectSeq(t, LAMBDA l : l.owner_user_id = profileId)

\* from('list').eq('owner_user_id', profileId)
ListsOwned == ListsOwnedIn(list)

\* from('list_item').in('list_id', ids).gte(created_at).lte(created_at)
ItemsOfListsInYearIn(t, ids) ==
  SelectSeq(t, LAMBDA it : it.list_id \in Range(ids) /\ InYear(it.created_at))
ItemsOfListsInYear(ids) == ItemsOfListsInYearIn(list_item, ids)

\* the bounds of the re-fetch of the most active day
dayStart(date) == SetHours(off, ParseDateKey(date), 0, 0, 0)
dayEnd(date) == SetHours(off, ParseDateKey(date), 23, 59, 59)

\* from('list_item').in('list_id', ids).is('suggested_by', null).gte().lte().order()
ItemsOnDayIn(t, ids, date) ==
  SortByCreatedAt(SelectSeq(t, LAMBDA it :
    /\ it.list_id \in Range(ids)
    /\ it.suggested_by = NullId
    /\ dayStart(date) <= it.created_at
    /\ it.created_at <= dayEnd(date)))
ItemsOnDay(ids, date) == ItemsOnDayIn(list_item, ids, date)

\* from('list_item').in('list_id', ids).not('suggested_by', 'is', null).gte().lte()
SuggestedGiftsIn(t, ids) ==
  SelectSeq(t, LAMBDA it : /\ it.list_id \in Range(ids)
                           /\ it.suggested_by # NullId
                           /\ InYear(it.created_at))
SuggestedGifts(ids) == SuggestedGiftsIn(list_item, ids)

\* from('profiles').select('id, first_name, last_name').in('id', ids)
ProfilesAmong(t, ids) == SelectSeq(t, LAMBDA p : p.id \in ids)
ProfilesIn(ids) == ProfilesAmong(profiles, ids)

\* ------------------------------------------------------------------ the handler

\* Throw as the error branches that only log: the handler carries on
Throw_Logged(name, message) ==
  /\ failed' = failed \cup {name}
  /\ pc' = "lastMinute"
  /\ UNCHANGED << locals, result, thrown >>

\* throw new Error(message): the catch block rethrows, no report is returned;
\* the message ends with the text of the store's error, which is not kept here
Throw(name, message) ==
  /\ failed' = failed \cup {name}
  /\ thrown' = Some([ name |-> "Error", message |-> message ])
  /\ pc' = "done"
  /\ UNCHANGED << locals, result >>

\* lines 25-35: the profile; .single() is an error unless exactly one row matches
FetchProfile ==
  /\ pc = "profile"
  /\ issued' = Append(issued, Query("profile", {profileId}))
  /\ \E err \in Errors("profile") :
       IF err \/ Len(SelectSeq(profiles, LAMBDA p : p.id = profileId)) # 1
       THEN Throw("profile", "Failed to fetch profile")
       ELSE /\ pc' = "purchases"
            /\ UNCHANGED << failed, locals, result, thrown >>
  /\ UNCHANGED << store, history, input >>

\* lines 42-64 and, with no purchase, 86-118
FetchPurchases ==
  /\ pc = "purchases"
  /\ issued' = Append(issued, Query("purchases", {profileId}))
  /\ \E err \in Errors("purchases") :
       IF err THEN Throw("purchases", "Failed to fetch purchases")
       ELSE /\ purchaseIds' = Ids(PurchasesOfYear)
            /\ listItems' = << >>
            /\ pc' = IF Len(purchaseIds') > 0 THEN "lineItems" ELSE "lastMinute"
            /\ UNCHANGED << failed, lastMinutePurchaseIds, lastMinutePurchases, lists,
                            maxListId, maxCount, listWithMostItems, userListIds,
                            mostActiveDay, itemsOnDay, suggestedGiftCountsArray,
                            result, thrown >>
  /\ UNCHANGED << store, history, input >>

\* lines 66-118
FetchLineItems ==
  /\ pc = "lineItems"
  /\ issued' = Append(issued, Query("lineItems", Range(purchaseIds)))
  /\ \E err \in Errors("lineItems") :
       IF err THEN Throw("lineItems", "Failed to fetch list items")
       ELSE /\ listItems' = ItemsOfPurchases(purchaseIds)
            /\ pc' = "lastMinute"
            /\ UNCHANGED << failed, purchaseIds, lastMinutePurchaseIds,
                            lastMinutePurchases, lists, maxListId, maxCount,
                            listWithMostItems, userListIds, mostActiveDay, itemsOnDay,
                            suggestedGiftCountsArray, result, thrown >>
  /\ UNCHANGED << store, history, input >>

\* lines 123-145 and 157-160
FetchLastMinutePurchases ==
  /\ pc = "lastMinute"
  /\ issued' = Append(issued, Query("lastMinutePurchases", {profileId}))
  /\ \E err \in Errors("lastMinutePurchases") :
       IF err
       THEN /\ failed' = failed \cup {"lastMinutePurchases"}
            /\ pc' = "lists"
            /\ UNCHANGED lastMinutePurchaseIds
       ELSE /\ lastMinutePurchaseIds' = Ids(PurchasesLastMinute)
            /\ pc' = IF Len(lastMinutePurchaseIds') > 0 THEN "lastMinuteCount" ELSE "lists"
            /\ UNCHANGED failed
  /\ UNCHANGED << store, history, input, purchaseIds, listItems, lastMinutePurchases, lists,
                  maxListId, maxCount, listWithMostItems, userListIds, mostActiveDay,
                  itemsOnDay, suggestedGiftCountsArray, result, thrown >>

\* lines 146-156
CountLastMinuteItems ==
  /\ pc = "lastMinuteCount"
  /\ issued' = Append(issued, Query("lastMinuteCount", Range(lastMinutePurchaseIds)))
  /\ \E err \in Errors("lastMinuteCount") :
       IF err
       THEN /\ failed' = failed \cup {"lastMinuteCount"}
            /\ UNCHANGED lastMinutePurchases
       ELSE /\ lastMinutePurchases' = Len(ItemsOfPurchases(lastMinutePurchaseIds))
            /\ UNCHANGED failed
  /\ pc' = "lists"
  /\ UNCHANGED << store, history, input, purchaseIds, listItems, lastMinutePurchaseIds, lists,
                  maxListId, maxCount, listWithMostItems, userListIds, mostActiveDay,
                  itemsOnDay, suggestedGiftCountsArray, result, thrown >>

\* lines 173-193: the error of this query is not read; data is null on an error
FetchLists ==
  /\ pc = "lists"
  /\ issued' = Append(issued, Query("lists", {profileId}))
  /\ \E err \in Errors("lists") :
       /\ failed' = IF err THEN failed \cup {"lists"} ELSE failed
       /\ lists' = IF err THEN << >> ELSE ListsOfYear
  /\ pc' = IF Len(lists') > 0 THEN "listItemsCount" ELSE "userLists"
  /\ UNCHANGED << store, history, input, purchaseIds, listItems, lastMinutePurchaseIds,
                  lastMinutePurchases, maxListId, maxCount, listWithMostItems,
                  userListIds, mostActiveDay, itemsOnDay, suggestedGiftCountsArray,
                  result, thrown >>

\* lines 196-231: the error of this query is not read either
FetchListItemsCount ==
  /\ pc = "listItemsCount"
  /\ issued' = Append(issued, Query("listItemsCount", Range(Ids(lists))))
  /\ \E err \in Errors("listItemsCount") :
       LET listItemsCount == IF err THEN << >> ELSE ItemsOfLists(Ids(lists))
           best == MaxByCount(CountEntries(
                     [ i \in DOMAIN listItemsCount |-> listItemsCount[i].list_id ]))
       IN /\ failed' = IF err THEN failed \cup {"listItemsCount"} ELSE failed
          /\ maxListId' = IF best = None THEN NullId ELSE best[1].key
          /\ maxCount' = IF best = None THEN 0 ELSE best[1].count
          /\ listWithMostItems' = ListWithMost(lists, best)
  /\ pc' = "userLists"
  /\ UNCHANGED << store, history, input, purchaseIds, listItems, lastMinutePurchaseIds,
                  lastMinutePurchases, lists, userListIds, mostActiveDay, itemsOnDay,
                  suggestedGiftCountsArray, result, thrown >>

\* lines 242-253 and 350-357, 418-421
FetchUserLists ==
  /\ pc = "userLists"
  /\ issued' = Append(issued, Query("userLists", {profileId}))
  /\ \E err \in Errors("userLists") :
       IF err
       THEN /\ failed' = failed \cup {"userLists"}
            /\ pc' = "assemble"
            /\ UNCHANGED userListIds
       ELSE /\ userListIds' = Ids(ListsOwned)
            /\ pc' = IF Len(userListIds') > 0 THEN "userListItems" ELSE "assemble"
            /\ UNCHANGED failed
  /\ UNCHANGED << store, history, input, purchaseIds, listItems, lastMinutePurchaseIds,
                  lastMinutePurchases, lists, maxListId, maxCount, listWithMostItems,
                  mostActiveDay, itemsOnDay, suggestedGiftCountsArray, result, thrown >>

\* lines 256-316 and 343-349
FetchUserListItems ==
  /\ pc = "userListItems"
  /\ issued' = Append(issued, Query("userListItems", Range(userListIds)))
  /\ \E err \in Errors("userListItems") :
       IF err
       THEN /\ failed' = failed \cup {"userListItems"}
            /\ pc' = "suggestedGifts"
            /\ UNCHANGED mostActiveDay
       ELSE LET maxDay == MaxByCount(DayEntries(ItemsOfListsInYear(userListIds)))
            IN /\ mostActiveDay' =
                    IF maxDay = None THEN None
                    ELSE Some([ date |-> maxDay[1].date,
                                datetime |-> maxDay[1].datetime,
                                itemCount |-> maxDay[1].count ])
               /\ pc' = IF maxDay = None THEN "suggestedGifts" ELSE "itemsOnDay"
               /\ UNCHANGED failed
  /\ UNCHANGED << store, history, input, purchaseIds, listItems, lastMinutePurchaseIds,
                  lastMinutePurchases, lists, maxListId, maxCount, listWithMostItems,
                  userListIds, itemsOnDay, suggestedGiftCountsArray, result, thrown >>

\* lines 319-342; userListIdsForDay is userListIds, which is not empty here, so
\* the second fetch of the owned lists (320-326) is never made
FetchItemsOnDay ==
  /\ pc = "itemsOnDay"
  /\ issued' = Append(issued, Query("itemsOnDay", Range(userListIds)))
  /\ \E err \in Errors("itemsOnDay") :
       IF err
       THEN /\ failed' = failed \cup {"itemsOnDay"}
            /\ UNCHANGED itemsOnDay
       ELSE /\ itemsOnDay' = Some(ItemsOnDay(userListIds, mostActiveDay[1].date))
            /\ UNCHANGED failed
  /\ pc' = "suggestedGifts"
  /\ UNCHANGED << store, history, input, purchaseIds, listItems, lastMinutePurchaseIds,
                  lastMinutePurchases, lists, maxListId, maxCount, listWithMostItems,
                  userListIds, mostActiveDay, suggestedGiftCountsArray, result, thrown >>

\* lines 357-390
FetchSuggestedGifts ==
  /\ pc = "suggestedGifts"
  /\ issued' = Append(issued, Query("suggestedGifts", Range(userListIds)))
  /\ \E err \in Errors("suggestedGifts") :
       IF err
       THEN /\ failed' = failed \cup {"suggestedGifts"}
            /\ pc' = "assemble"
            /\ UNCHANGED suggestedGiftCountsArray
       ELSE /\ suggestedGiftCountsArray' = SuggestedCounts(SuggestedGifts(userListIds))
            /\ pc' = "suggesterProfiles"
            /\ UNCHANGED failed
  /\ UNCHANGED << store, history, input, purchaseIds, listItems, lastMinutePurchaseIds,
                  lastMinutePurchases, lists, maxListId, maxCount, listWithMostItems,
                  userListIds, mostActiveDay, itemsOnDay, result, thrown >>

suggesterIds == { suggestedGiftCountsArray[i].suggested_by : i \in DOMAIN suggestedGiftCountsArray }

\* lines 392-417
FetchSuggesterProfiles ==
  /\ pc = "suggesterProfiles"
  /\ issued' = Append(issued, Query("suggesterProfiles", suggesterIds))
  /\ \E err \in Errors("suggesterProfiles") :
       IF err
       THEN /\ failed' = failed \cup {"suggesterProfiles"}
            /\ UNCHANGED suggestedGiftCountsArray
       ELSE /\ suggestedGiftCountsArray' =
                 WithNames(suggestedGiftCountsArray, ProfilesIn(suggesterIds))
            /\ UNCHANGED failed
  /\ pc' = "assemble"
  /\ UNCHANGED << store, history, input, purchaseIds, listItems, lastMinutePurchaseIds,
                  lastMinutePurchases, lists, maxListId, maxCount, listWithMostItems,
                  userListIds, mostActiveDay, itemsOnDay, result, thrown >>

\* lines 424-466: the returned object, from the values L of the locals it reads
ReportOf(L) ==
  LET mostExpensive == mostExpensiveOf(L.listItems) IN
  [ profileId |-> profileId,
    year |-> year,
    stats |->
      [ totalGiftsGiven |-> Len(L.listItems),
        totalGiftsReceived |-> 0,
        mostExpensiveGift |->
          [ title |-> IF mostExpensive # None /\ TruthyStr(mostExpensive[1].title)
                      THEN mostExpensive[1].title ELSE "",
            price |-> IF mostExpensive # None
                      THEN ParsePrice(mostExpensive[1].price) ELSE 0,
            thumbnail_url |->
              IF mostExpensive # None /\ TruthyStr(mostExpensive[1].thumbnail_url)
              THEN mostExpensive[1].thumbnail_url ELSE NullStr ],
        totalSpending |-> spentOf(L.listItems),
        peopleExchangedWith |-> 0,
        mostPopularCategory |-> "",
        giftGivingStreak |-> 0,
        santaScore |-> 0,
        lastMinutePurchases |-> L.lastMinutePurchases,
        mostUsedRetailer |-> "",
        homemadeGifts |-> 0,
        purchaseTiming |->
          [ earlyBird |-> 0, onTime |-> 0, lastMinute |-> L.lastMinutePurchases ] ],
    personalityType |-> "",
    personalityReason |-> "",
    listStats |->
      [ totalListsCreated |-> Len(L.lists),
        listWithMostItems |->
          IF L.listWithMostItems = None THEN None
          ELSE Some([ name |-> L.listWithMostItems[1].name,
                      itemCount |-> L.listWithMostItems[1].itemCount ]),
        mostActiveDay |->
          IF L.mostActiveDay = None THEN None
          ELSE Some([ date |-> L.mostActiveDay[1].date,
                      datetime |-> L.mostActiveDay[1].datetime,
                      itemCount |-> L.mostActiveDay[1].itemCount,
                      items |-> L.itemsOnDay ]),
        suggestedGiftCounts |-> L.suggestedGiftCountsArray ] ]

Report ==
  ReportOf([ listItems |-> listItems,
             lastMinutePurchases |-> lastMinutePurchases,
             lists |-> lists,
             listWithMostItems |-> listWithMostItems,
             mostActiveDay |-> mostActiveDay,
             itemsOnDay |-> itemsOnDay,
             suggestedGiftCountsArray |-> suggestedGiftCountsArray ])

\* lines 424-472
Assemble ==
  /\ pc = "assemble"
  /\ result' = Some(Report)
  /\ pc' = "done"
  /\ UNCHANGED << store, history, input, issued, failed, locals, thrown >>

Next ==
  \/ FetchProfile
  \/ FetchPurchases
  \/ FetchLineItems
  \/ FetchLastMinutePurchases
  \/ CountLastMinuteItems
  \/ FetchLists
  \/ FetchListItemsCount
  \/ FetchUserLists
  \/ FetchUserListItems
  \/ FetchItemsOnDay
  \/ FetchSuggestedGifts
  \/ FetchSuggesterProfiles
  \/ Assemble

\* ------------------------------------------------------------------ initial states

(***************************************************************************)
(* The handler is called for profile 1.  Each specification starts it on a *)
(* family of stores that varies the rows one reducer reads and keeps the   *)
(* other tables at a small fixture.                                        *)
(***************************************************************************)

MaxPurchases == 2
MaxLineItems == 3
MaxListItems == 3
MaxDayItems == 3
MaxSuggested == 3

Years == {2023, 2024}
Offsets == {-5, 0, 9}

\* every sequence over S of length at most n
SeqsUpTo(S, n) == UNION { [1..k -> S] : k \in 0..n }

Row(id, purchase_id, list_id, price, created_at, suggested_by) ==
  [ id |-> id, purchase_id |-> purchase_id, list_id |-> list_id, title |-> "Gift",
    price |-> price, thumbnail_url |-> NullStr, created_at |-> created_at,
    suggested_by |-> suggested_by ]

MidYear(y) == DateUTC(y, 5, 15, 12, 0, 0)

FixtureProfiles ==
  << [id |-> 1, first_name |-> "Pat", last_name |-> "Lee"],
     [id |-> 2, first_name |-> "Quinn", last_name |-> "Diaz"] >>

\* one purchase of the profile on Dec 20, with one line item
FixturePurchase(o, y) ==
  << [id |-> 1, purchase_user |-> 1, created_at |-> NewDate(o, y, 11, 20, 12, 0, 0)] >>
FixtureLineItems(y) == << Row(90, 1, 9, <<"5">>, MidYear(y), NullId) >>

\* list 1 of the profile with one own and one suggested item, list 2 of profile 2
FixtureLists(y) ==
  << [id |-> 1, name |-> "A", created_at |-> MidYear(y), owner_user_id |-> 1],
     [id |-> 2, name |-> "B", created_at |-> MidYear(y), owner_user_id |-> 2] >>
FixtureListItems(y) ==
  << Row(91, NullId, 1, <<"5">>, MidYear(y), NullId),
     Row(92, NullId, 1, <<"5">>, MidYear(y), 2) >>

InitLocals ==
  /\ history = << >>
  /\ issued = << >>
  /\ failed = {}
  /\ purchaseIds = << >>
  /\ listItems = << >>
  /\ lastMinutePurchaseIds = << >>
  /\ lastMinutePurchases = 0
  /\ lists = << >>
  /\ maxListId = NullId
  /\ maxCount = 0
  /\ listWithMostItems = None
  /\ userListIds = << >>
  /\ mostActiveDay = None
  /\ itemsOnDay = None
  /\ suggestedGiftCountsArray = << >>
  /\ result = None
  /\ thrown = None

\* a direct call calculatePatientData(supabase, 1, year), at its first await
InitRun ==
  /\ req = None
  /\ profileId = 1
  /\ pc = "profile"
  /\ InitLocals

\* --- purchases around the bounds of the year and of the last-minute window

PurchaseTimes(o, y) ==
  { NewDate(o, y - 1, 11, 31, 23, 59, 59), NewDate(o, y, 0, 1, 0, 0, 0),
    NewDate(o, y, 11, 16, 23, 59, 59),     NewDate(o, y, 11, 17, 0, 0, 0),
    NewDate(o, y, 11, 17, 23, 59, 59),     NewDate(o, y, 11, 18, 0, 0, 0),
    NewDate(o, y, 11, 25, 23, 59, 59),     NewDate(o, y, 11, 26, 0, 0, 0),
    NewDate(o, y, 11, 31, 23, 59, 59),     NewDate(o, y + 1, 0, 1, 0, 0, 0) }

PurchaseOptions(o, y) ==
  { << 1, t >> : t \in PurchaseTimes(o, y) } \cup { << 2, NewDate(o, y, 11, 20, 12, 0, 0) >> }

RECURSIVE Pow2(_)
Pow2(n) == IF n = 0 THEN 1 ELSE 2 * Pow2(n - 1)

\* purchase i has 2^(i-1) line items, so a count tells which purchases it covers
RECURSIVE LineItemsOf(_, _)
LineItemsOf(n, y) ==
  IF n = 0 THEN << >>
  ELSE LineItemsOf(n - 1, y)
         \o [ j \in 1..Pow2(n - 1) |-> Row(10 * n + j, n, 2, <<"5">>, MidYear(y), NullId) ]

InitWindow ==
  /\ InitRun
  /\ year \in Years
  /\ off \in Offsets
  /\ mayFail = {"lastMinutePurchases", "lastMinuteCount"}
  /\ profiles = FixtureProfiles
  /\ list = FixtureLists(year)
  /\ \E f \in SeqsUpTo(PurchaseOptions(off, year), MaxPurchases) :
       /\ purchase = [ i \in DOMAIN f |->
                         [id |-> i, purchase_user |-> f[i][1], created_at |-> f[i][2]] ]
       /\ list_item = LineItemsOf(Len(f), year) \o FixtureListItems(year)

\* --- line items of two purchases of the year, with every kind of price

Prices == { NullPrice, <<"a">>, <<"0">>, <<"5">>, <<"1", "2">> }

InitSpend ==
  /\ InitRun
  /\ year = 2024
  /\ off = 0
  /\ mayFail = {"profile", "purchases", "lineItems"}
  /\ profiles = FixtureProfiles
  /\ list = FixtureLists(year)
  /\ purchase = << [id |-> 1, purchase_user |-> 1, created_at |-> MidYear(year)],
                   [id |-> 2, purchase_user |-> 2, created_at |-> MidYear(year)] >>
  /\ \E f \in SeqsUpTo({1, 2} \X Prices, MaxLineItems) :
       list_item = [ i \in DOMAIN f |-> Row(i, f[i][1], 2, f[i][2], MidYear(year), NullId) ]
                     \o FixtureListItems(year)

\* --- lists 0, 1, 2 of either owner and year, and items spread over them

ListIds == {0, 1, 2}
ListOptions == {"none", "named", "unnamed", "old", "theirs"}

ListRow(id, opt, y) ==
  [ id |-> id,
    name |-> IF opt = "unnamed" THEN NullStr ELSE "A",
    created_at |-> IF opt = "old" THEN MidYear(y - 1) ELSE MidYear(y),
    owner_user_id |-> IF opt = "theirs" THEN 2 ELSE 1 ]

InitLists ==
  /\ InitRun
  /\ year = 2024
  /\ off = 0
  /\ mayFail = {"lists", "listItemsCount"}
  /\ profiles = FixtureProfiles
  /\ purchase = FixturePurchase(off, year)
  /\ \E opt \in [ListIds -> ListOptions] :
       list = LET ids == SelectSeq(Ascending(ListIds), LAMBDA id : opt[id] # "none")
              IN [ i \in DOMAIN ids |-> ListRow(ids[i], opt[ids[i]], year) ]
  /\ \E f \in SeqsUpTo(ListIds, MaxListItems) :
       list_item = [ i \in DOMAIN f |-> Row(i, NullId, f[i], <<"5">>, MidYear(year), NullId) ]
                     \o FixtureLineItems(year)

\* --- items of the owned lists on days around midnight and the start of the year

DayTimes(y) ==
  { DateUTC(y, 2, 10, 2, 0, 0), DateUTC(y, 2, 10, 20, 0, 0),
    DateUTC(y, 2, 11, 2, 0, 0), DateUTC(y, 0, 1, 2, 0, 0) }

DayOptions(y) ==
  { << 1, t, NullId >> : t \in DayTimes(y) }
    \cup { << 1, DateUTC(y, 2, 10, 2, 0, 0), 2 >>,
           << 1, DateUTC(y, 2, 10, 2, 0, 0), 0 >>,
           << 2, DateUTC(y, 2, 10, 2, 0, 0), NullId >> }

InitDays ==
  /\ InitRun
  /\ year = 2024
  /\ off \in Offsets
  /\ mayFail = {"userLists", "userListItems", "itemsOnDay"}
  /\ profiles = FixtureProfiles
  /\ purchase = FixturePurchase(off, year)
  /\ list = << [id |-> 1, name |-> "A", created_at |-> MidYear(year - 1), owner_user_id |-> 1],
               [id |-> 2, name |-> "B", created_at |-> MidYear(year), owner_user_id |-> 2],
               [id |-> 3, name |-> "C", created_at |-> MidYear(year), owner_user_id |-> 1] >>
  /\ \E f \in SeqsUpTo(DayOptions(year), MaxDayItems) :
       list_item = [ i \in DOMAIN f |-> Row(i, NullId, f[i][1], <<"5">>, f[i][2], f[i][3]) ]
                     \o FixtureLineItems(year)

\* --- suggested items of list 1, which the profile owns or does not own

SuggestOptions(y) ==
  { << 1, s, MidYear(y) >> : s \in {0, 2, 3, NullId} }
    \cup { << 1, 2, MidYear(y - 1) >>, << 2, 3, MidYear(y) >> }

InitSuggest ==
  /\ InitRun
  /\ year = 2024
  /\ off = 0
  /\ mayFail = {"suggestedGifts", "suggesterProfiles"}
  /\ profiles = FixtureProfiles
  /\ purchase = FixturePurchase(off, year)
  /\ \E owner \in {1, 2} :
       list = << [id |-> 1, name |-> "A", created_at |-> MidYear(year), owner_user_id |-> owner],
                 [id |-> 2, name |-> "B", created_at |-> MidYear(year), owner_user_id |-> 2] >>
  /\ \E f \in SeqsUpTo(SuggestOptions(year), MaxSuggested) :
       list_item = [ i \in DOMAIN f |-> Row(i, NullId, f[i][1], <<"5">>, f[i][3], f[i][2]) ]
                     \o FixtureLineItems(year)

\* --- empty and non-empty tables, with every fetch that is not fatal free to fail

NonCritical ==
  { "lastMinutePurchases", "lastMinuteCount", "lists", "listItemsCount", "userLists",
    "userListItems", "itemsOnDay", "suggestedGifts", "suggesterProfiles" }

\* the sub-sequences of a sequence
SubSeqs(s) ==
  { SelectSeq([ i \in DOMAIN s |-> << i, s[i] >> ], LAMBDA x : x[1] \in I) : I \in SUBSET DOMAIN s }

Second(pairs) == [ i \in DOMAIN pairs |-> pairs[i][2] ]

InitFaults ==
  /\ InitRun
  /\ year = 2024
  /\ off = 0
  /\ mayFail = NonCritical
  /\ profiles = FixtureProfiles
  /\ purchase \in { << >>, FixturePurchase(off, year) }
  /\ list \in { << >>, FixtureLists(year) }
  /\ \E own \in SubSeqs(FixtureListItems(year)) :
       list_item = Second(own) \o FixtureLineItems(year)

\* ------------------------------------------------------------------ the HTTP handler

\* parseInt(text): the number written by the longest prefix of digits, NaN when
\* there is none
ParseInt(s) == IF DigitPrefix(s) = << >> THEN NaN ELSE DigitsValue(DigitPrefix(s))

IsNumeric(s) == s # << >> /\ \A i \in DOMAIN s : s[i] \in Digits

\* .eq('id', text): the integer the store compares the id column with; a text
\* that is not an integer matches no row
StoreId(s) == IF IsNumeric(s) THEN DigitsValue(s) ELSE NaN

\* server.js 67-97 up to the first await of calculatePatientData (lines 14-29):
\* new Date(NaN, 0, 1).toISOString() throws a RangeError at line 21
GetPatientData ==
  /\ pc = "request"
  /\ LET patientId == req[1].patientId
         yearQuery == req[1].year
     IN IF patientId = << >>
        THEN /\ pc' = "rejected"
             /\ UNCHANGED << profileId, year, thrown >>
        ELSE \E now \in Years :
               LET yearParam == IF yearQuery # << >> THEN ParseInt(yearQuery) ELSE now
               IN /\ profileId' = StoreId(patientId)
                  /\ year' = yearParam
                  /\ IF yearParam = NaN
                     THEN /\ thrown' = Some([ name |-> "RangeError",
                                              message |-> "Invalid time value" ])
                          /\ pc' = "done"
                     ELSE /\ pc' = "profile"
                          /\ UNCHANGED thrown
  /\ UNCHANGED << store, history, req, off, mayFail, issued, failed, locals, result >>

\* res.status(...).json(...): the response once the handler has answered
Response ==
  CASE pc = "rejected" -> [ status |-> 400, error |-> "Patient ID is required" ]
    [] pc = "done" /\ result # None -> [ status |-> 200, error |-> "" ]
    [] pc = "done" /\ result = None ->
         [ status |-> 500, error |-> "Failed to calculate wrapped data" ]
    [] OTHER -> [ status |-> 0, error |-> "" ]

NextRequest == GetPatientData \/ Next

\* --- requests with a missing, unknown or non-numeric id and year

PatientIds == { << >>, <<"1">>, <<"7">>, <<"a">> }
YearTexts == { << >>, <<"2", "0", "2", "4">>, <<"a">> }

InitRequest ==
  /\ req \in { Some([ patientId |-> p, year |-> y ]) : p \in PatientIds, y \in YearTexts }
  /\ profileId = NullId
  /\ year = NaN
  /\ pc = "request"
  /\ InitLocals
  /\ off = 0
  /\ mayFail = {"profile", "purchases"}
  /\ profiles = FixtureProfiles
  /\ purchase \in { << >>, FixturePurchase(off, 2024) }
  /\ list = FixtureLists(2024)
  /\ \E own \in SubSeqs(FixtureListItems(2024)) :
       list_item = Second(own) \o FixtureLineItems(2024)

\* ------------------------------------------------------------------ other processes

(***************************************************************************)
(* While the handler waits for an answer, other clients of the store      *)
(* insert and delete rows.  The store runs each query and each write on    *)
(* its own; nothing in the handler opens a transaction over its queries.   *)
(***************************************************************************)

MaxWrites == 2

Remove(s, i) == SubSeq(s, 1, i - 1) \o SubSeq(s, i + 1, Len(s))

Running == pc \notin {"request", "rejected", "done"}

Write ==
  /\ Running
  /\ Len(history) < MaxWrites
  /\ history' = Append(history, Snapshot)
  /\ UNCHANGED << profiles, input, pc, issued, failed, locals, result, thrown >>

NewPurchases == { [id |-> 2, purchase_user |-> 1, created_at |-> NewDate(off, year, 11, 20, 12, 0, 0)] }
NewLists == { [id |-> 3, name |-> "C", created_at |-> MidYear(year), owner_user_id |-> 1] }
NewListItems ==
  { Row(95, 1, 9, <<"5">>, MidYear(year), NullId),
    Row(96, NullId, 1, <<"5">>, MidYear(year) + SecPerDay, NullId),
    Row(97, NullId, 1, <<"5">>, MidYear(year), 2) }

InsertPurchase ==
  /\ Write
  /\ \E row \in NewPurchases :
       /\ row.id \notin Range(Ids(purchase))
       /\ purchase' = Append(purchase, row)
  /\ UNCHANGED << list, list_item >>

DeletePurchase ==
  /\ Write
  /\ \E i \in DOMAIN purchase : purchase' = Remove(purchase, i)
  /\ UNCHANGED << list, list_item >>

InsertList ==
  /\ Write
  /\ \E row \in NewLists :
       /\ row.id \notin Range(Ids(list))
       /\ list' = Append(list, row)
  /\ UNCHANGED << purchase, list_item >>

DeleteList ==
  /\ Write
  /\ \E i \in DOMAIN list : list' = Remove(list, i)
  /\ UNCHANGED << purchase, list_item >>

InsertListItem ==
  /\ Write
  /\ \E row \in NewListItems :
       /\ row.id \notin Range(Ids(list_item))
       /\ list_item' = Append(list_item, row)
  /\ UNCHANGED << purchase, list >>

DeleteListItem ==
  /\ Write
  /\ \E i \in DOMAIN list_item : list_item' = Remove(list_item, i)
  /\ UNCHANGED << purchase, list >>

NextConcurrent ==
  \/ Next
  \/ InsertPurchase
  \/ DeletePurchase
  \/ InsertList
  \/ DeleteList
  \/ InsertListItem
  \/ DeleteListItem

InitConcurrent ==
  /\ InitRun
  /\ year = 2024
  /\ off = 0
  /\ mayFail = {}
  /\ profiles = FixtureProfiles
  /\ purchase = FixturePurchase(off, year)
  /\ list = FixtureLists(year)
  /\ list_item = FixtureLineItems(year) \o FixtureListItems(year)

\* ------------------------------------------------------------------ specifications

SpecPurchases == (InitWindow \/ InitSpend) /\ [][Next]_vars
SpecLists == InitLists /\ [][Next]_vars
SpecDays == InitDays /\ [][Next]_vars
SpecSuggest == InitSuggest /\ [][Next]_vars
SpecFaults == InitFaults /\ [][Next]_vars
SpecRequest == InitRequest /\ [][NextRequest]_vars
SpecConcurrent == InitConcurrent /\ [][NextConcurrent]_vars

Init == InitWindow \/ InitSpend \/ InitLists \/ InitDays \/ InitSuggest \/ InitFaults
Spec == Init /\ [][Next]_vars

\* ------------------------------------------------------------------ what the claims speak of

\* the windows as the specification states them, in the server's zone
FullYearFirst == DateUTC(year, 0, 1, 0, 0, 0) - off * SecPerHour
FullYearLast == DateUTC(year, 11, 31, 23, 59, 59) - off * SecPerHour
Dec18 == DateUTC(year, 11, 18, 0, 0, 0) - off * SecPerHour
Dec26 == DateUTC(year, 11, 26, 0, 0, 0) - off * SecPerHour

InFullYear(t) == FullYearFirst <= t /\ t <= FullYearLast

\* the value of a price: its amount, 0 when it is null or not a number
Amount(price) ==
  CASE price = <<"5">> -> 5
    [] price = <<"1", "2">> -> 12
    [] OTHER -> 0

Returned == pc = "done" /\ result # None
Stats == result[1].stats
ListStats == result[1].listStats

Asked(name) == \E i \in DOMAIN issued : issued[i].q = name
Answered(name) == Asked(name) /\ name \notin failed

\* the purchases of the profile created in the full year, and their line items
YearPurchaseIds ==
  { purchase[i].id : i \in { j \in DOMAIN purchase :
      purchase[j].purchase_user = profileId /\ InFullYear(purchase[j].created_at) } }
YearLineItems == SelectSeq(list_item, LAMBDA it : it.purchase_id \in YearPurchaseIds)

\* C1: a returned report has totalGiftsGiven = the number of line items whose
\* purchase is the profile's and was created in the inclusive full-year window,
\* and totalSpending = the sum of their prices with a null or unparseable price
\* counted as 0; with no such purchase both are 0 and the line items are
\* never fetched.
C1_GiftsAndSpending ==
  /\ Returned =>
       /\ Stats.totalGiftsGiven = Len(YearLineItems)
       /\ Stats.totalSpending =
            SumSeq([ i \in DOMAIN YearLineItems |-> Amount(YearLineItems[i].price) ])
  /\ YearPurchaseIds = {} =>
       /\ ~Asked("lineItems")
       /\ Returned => Stats.totalGiftsGiven = 0 /\ Stats.totalSpending = 0

\* a report over two counted items, one of them without a price, while purchases
\* of another profile and of the profile outside the year exist
C1_Witness ==
  /\ Returned
  /\ Len(YearLineItems) >= 2
  /\ \E i \in DOMAIN YearLineItems : YearLineItems[i].price = NullPrice
  /\ Stats.totalSpending > 0
  /\ \E i \in DOMAIN list_item :
       list_item[i].purchase_id # NullId /\ list_item[i].purchase_id \notin YearPurchaseIds

\* C2: the selected most expensive item is the first in fetch order among the
\* items of greatest parsed price; an item whose price is null or unparseable is
\* selected only when every item is zero-priced, and then the first fetched item
\* is selected; with no items the selection is null and the report carries
\* title '', price 0 and thumbnail null.
C2_MostExpensive ==
  Returned =>
    LET items == YearLineItems
        gift == Stats.mostExpensiveGift
    IN IF items = << >>
       THEN /\ mostExpensiveItem = None
            /\ gift = [ title |-> "", price |-> 0, thumbnail_url |-> NullStr ]
       ELSE /\ mostExpensiveItem # None
            /\ \E k \in DOMAIN items :
                 /\ mostExpensiveItem[1] = items[k]
                 /\ \A j \in DOMAIN items : Amount(items[j].price) <= Amount(items[k].price)
                 /\ \A j \in 1..(k - 1) : Amount(items[j].price) < Amount(items[k].price)
                 /\ items[k].price \in { NullPrice, <<"a">> } =>
                      /\ \A j \in DOMAIN items : Amount(items[j].price) = 0
                      /\ k = 1
            /\ gift.price = Amount(mostExpensiveItem[1].price)

\* three items, the greatest price shared by the last two, the first unpriced
C2_Witness ==
  /\ Returned
  /\ Len(YearLineItems) = 3
  /\ YearLineItems[1].price = NullPrice
  /\ Amount(YearLineItems[2].price) = 5
  /\ Amount(YearLineItems[3].price) = 5
  /\ mostExpensiveItem[1] = YearLineItems[2]

\* the line items of the purchases the profile made from Dec 18 00:00 to before Dec 26 00:00
LastMinutePurchaseIds ==
  { purchase[i].id : i \in { j \in DOMAIN purchase :
      /\ purchase[j].purchase_user = profileId
      /\ Dec18 <= purchase[j].created_at
      /\ purchase[j].created_at < Dec26 } }
LastMinuteLineItems == SelectSeq(list_item, LAMBDA it : it.purchase_id \in LastMinutePurchaseIds)

\* C3: the last-minute window is [Dec 18 00:00, Dec 26 00:00) of the year: a
\* purchase of the profile adds its line items to lastMinutePurchases if and
\* only if it was created in that window.
C3_LastMinuteWindow ==
  (Returned /\ failed = {}) => Stats.lastMinutePurchases = Len(LastMinuteLineItems)

\* C4: with no purchase of the profile in the last-minute window the count is 0
\* and the line items are not counted by a query; that query is never sent
\* with an empty set of purchase ids.
C4_NoLastMinutePurchase ==
  /\ \A i \in DOMAIN issued : issued[i].q = "lastMinuteCount" => issued[i].ids # {}
  /\ LastMinutePurchaseIds = {} =>
       /\ ~Asked("lastMinuteCount")
       /\ Returned => Stats.lastMinutePurchases = 0

\* the least index at which x occurs in s
FirstPos(s, x) == CHOOSE i \in DOMAIN s : s[i] = x /\ \A j \in 1..(i - 1) : s[j] # x

\* the lists the profile created in the full year, and the list ids of the
\* items fetched for them, in fetch order
YearListIds ==
  { list[i].id : i \in { j \in DOMAIN list :
      list[j].owner_user_id = profileId /\ InFullYear(list[j].created_at) } }
FetchedListIds ==
  LET rows == SelectSeq(list_item, LAMBDA it : it.list_id \in YearListIds)
  IN [ i \in DOMAIN rows |-> rows[i].list_id ]

\* the greatest number of occurrences of one value in ids, and the values that reach it
Greatest(ids) ==
  CHOOSE n \in 0..Len(ids) :
    /\ \A id \in Range(ids) : CountOf(ids, id) <= n
    /\ \E id \in Range(ids) : CountOf(ids, id) = n
LeadersOf(ids) == LET n == Greatest(ids) IN { id \in Range(ids) : CountOf(ids, id) = n }

\* C5 as claimed: the list of greatest item count wins, and among several of
\* the greatest count the one whose id occurs first in the fetched items.
C5_FirstEncounteredWins ==
  Answered("listItemsCount") =>
    LET ids == FetchedListIds
        leaders == LeadersOf(ids)
    IN ids # << >> =>
         /\ maxCount = Greatest(ids)
         /\ maxListId \in leaders
         /\ \A id \in leaders : FirstPos(ids, maxListId) <= FirstPos(ids, id)

\* C5 as amended: the list of greatest item count wins, and among several of
\* the greatest count the one of least id, whatever the fetch order (list ids
\* are non-negative integers).
C5_LeastIdWins ==
  Answered("listItemsCount") =>
    LET ids == FetchedListIds
        leaders == LeadersOf(ids)
    IN ids # << >> =>
         /\ maxCount = Greatest(ids)
         /\ maxListId \in leaders
         /\ \A id \in leaders : maxListId <= id

\* two lists share the greatest count and the one fetched first has the greater id
C5_Witness ==
  /\ Answered("listItemsCount")
  /\ LET ids == FetchedListIds
         leaders == LeadersOf(ids)
     IN /\ Cardinality(leaders) = 2
        /\ ids[1] \in leaders
        /\ maxListId < ids[1]

\* the items the profile added itself to the lists it owns, created in the full
\* year, in fetch order, and the UTC day of each
OwnedListIds == { list[i].id : i \in { j \in DOMAIN list : list[j].owner_user_id = profileId } }
OwnItems ==
  SelectSeq(list_item, LAMBDA it : /\ it.list_id \in OwnedListIds
                                   /\ it.suggested_by = NullId
                                   /\ InFullYear(it.created_at))
OwnDays == [ i \in DOMAIN OwnItems |-> OwnItems[i].created_at \div SecPerDay ]

\* C6: when the owned lists and their items are fetched, the most active day
\* is null exactly when no item qualifies (null suggester, owned list of any
\* year, created in the full year); otherwise it is a day of greatest count of
\* qualifying items, the first such day in fetch order, with the creation time
\* of the first qualifying item of that day.
C6_MostActiveDay ==
  (Answered("userLists") /\ (OwnedListIds = {} \/ Answered("userListItems"))) =>
    IF OwnItems = << >> THEN mostActiveDay = None
    ELSE /\ mostActiveDay # None
         /\ LET day == mostActiveDay[1]
            IN /\ day.date \in Range(OwnDays)
               /\ day.itemCount = CountOf(OwnDays, day.date)
               /\ \A d \in Range(OwnDays) :
                    /\ CountOf(OwnDays, d) <= day.itemCount
                    /\ CountOf(OwnDays, d) = day.itemCount =>
                         FirstPos(OwnDays, day.date) <= FirstPos(OwnDays, d)
               /\ day.datetime = OwnItems[FirstPos(OwnDays, day.date)].created_at

\* the suggesters of the items suggested for the owned lists in the full year,
\* in fetch order
FetchedSuggesters ==
  LET rows == SelectSeq(list_item, LAMBDA it : /\ it.list_id \in OwnedListIds
                                               /\ it.suggested_by # NullId
                                               /\ InFullYear(it.created_at))
  IN [ i \in DOMAIN rows |-> rows[i].suggested_by ]

Tally == suggestedGiftCountsArray

\* C7 as claimed: the tally is sorted descending by count, and suggesters of
\* equal count appear in the order in which they were first seen in the fetch.
C7_TiesInFirstSeenOrder ==
  Answered("suggestedGifts") =>
    \A i, j \in DOMAIN Tally : i < j =>
      /\ Tally[i].count >= Tally[j].count
      /\ Tally[i].count = Tally[j].count =>
           FirstPos(FetchedSuggesters, Tally[i].suggested_by)
             < FirstPos(FetchedSuggesters, Tally[j].suggested_by)

\* C7 as amended: the tally is sorted descending by count, and suggesters of
\* equal count appear in ascending order of their ids, whatever the fetch order
\* (suggester ids are non-negative integers).
C7_TiesInIdOrder ==
  Answered("suggestedGifts") =>
    \A i, j \in DOMAIN Tally : i < j =>
      /\ Tally[i].count >= Tally[j].count
      /\ Tally[i].count = Tally[j].count => Tally[i].suggested_by < Tally[j].suggested_by

\* two suggesters are tied and the one of greater id was seen first
C7_Witness ==
  /\ Answered("suggestedGifts")
  /\ Len(Tally) = 2
  /\ Tally[1].count = Tally[2].count
  /\ FirstPos(FetchedSuggesters, Tally[2].suggested_by)
       < FirstPos(FetchedSuggesters, Tally[1].suggested_by)

\* C8: when the suggestion fetches succeed, the counts of the tally add up to
\* the number of items with a non-null suggester on the owned lists in the full
\* year, each counted under its own suggester.
C8_CountsAddUp ==
  (Answered("userLists") /\ Answered("suggestedGifts")) =>
    /\ SumSeq([ i \in DOMAIN Tally |-> Tally[i].count ]) = Len(FetchedSuggesters)
    /\ \A id \in Range(FetchedSuggesters) :
         Cardinality({ i \in DOMAIN Tally :
           /\ Tally[i].suggested_by = id
           /\ Tally[i].count = CountOf(FetchedSuggesters, id) }) = 1

\* C9: every entry of suggestedGiftCounts of a returned report has a name: the
\* suggester's first and last name when the profiles table has the suggester,
\* the placeholder otherwise, also when the lookup fails.
C9_EveryEntryNamed ==
  Returned =>
    \A i \in DOMAIN ListStats.suggestedGiftCounts :
      LET e == ListStats.suggestedGiftCounts[i]
          known == SelectSeq(profiles, LAMBDA p : p.id = e.suggested_by)
      IN /\ e.name # NoName
         /\ e.name = IF known = << >> THEN Unknown
                     ELSE << known[1].first_name, known[1].last_name >>

\* C10: the lookup of the suggesters' profiles is never sent with an empty set
\* of ids.
C10_NoEmptyLookup ==
  \A i \in DOMAIN issued : issued[i].q = "suggesterProfiles" => issued[i].ids # {}

\* the report the handler returns when it reads every table as it is in the
\* one store state s and no query is answered with an error
SnapshotReport(s) ==
  LET pIds == Ids(PurchasesOfYearIn(s.purchase))
      items == IF Len(pIds) > 0 THEN ItemsOfPurchasesIn(s.list_item, pIds) ELSE << >>
      lmIds == Ids(PurchasesLastMinuteIn(s.purchase))
      lm == IF Len(lmIds) > 0 THEN Len(ItemsOfPurchasesIn(s.list_item, lmIds)) ELSE 0
      ls == ListsOfYearIn(s.list)
      counted == ItemsOfListsIn(s.list_item, Ids(ls))
      most == IF Len(ls) > 0
              THEN ListWithMost(ls, MaxByCount(CountEntries(
                     [ i \in DOMAIN counted |-> counted[i].list_id ])))
              ELSE None
      owned == Ids(ListsOwnedIn(s.list))
      maxDay == IF Len(owned) > 0
                THEN MaxByCount(DayEntries(ItemsOfListsInYearIn(s.list_item, owned)))
                ELSE None
      tally == SuggestedCounts(SuggestedGiftsIn(s.list_item, owned))
      named == WithNames(tally, ProfilesAmong(s.profiles,
                 { tally[i].suggested_by : i \in DOMAIN tally }))
  IN ReportOf([ listItems |-> items,
                lastMinutePurchases |-> lm,
                lists |-> ls,
                listWithMostItems |-> most,
                mostActiveDay |->
                  IF maxDay = None THEN None
                  ELSE Some([ date |-> maxDay[1].date, datetime |-> maxDay[1].datetime,
                              itemCount |-> maxDay[1].count ]),
                itemsOnDay |->
                  IF maxDay = None THEN None
                  ELSE Some(ItemsOnDayIn(s.list_item, owned, maxDay[1].date)),
                suggestedGiftCountsArray |-> IF Len(owned) > 0 THEN named ELSE << >> ])

\* a run without a failed query against a store that no one writes to returns
\* the report of that store
SameAsSnapshot ==
  (Returned /\ failed = {} /\ history = << >>) => result[1] = SnapshotReport(Snapshot)

\* the queries of list items that are keyed by list ids
ListItemQueries == {"listItemsCount", "userListItems", "itemsOnDay", "suggestedGifts"}

\* C11: for a profile that owns no list, no query of list items by list id is
\* sent, and a returned report has totalListsCreated = 0, listWithMostItems
\* null, mostActiveDay null and an empty suggestedGiftCounts.
C11_NoOwnedLists ==
  OwnedListIds = {} =>
    /\ \A i \in DOMAIN issued : issued[i].q \notin ListItemQueries
    /\ Returned =>
         /\ ListStats.totalListsCreated = 0
         /\ ListStats.listWithMostItems = None
         /\ ListStats.mostActiveDay = None
         /\ ListStats.suggestedGiftCounts = << >>

\* a report for a profile without lists while another profile's list has items
C11_Witness ==
  /\ Returned
  /\ OwnedListIds = {}
  /\ \E i \in DOMAIN list, j \in DOMAIN list_item : list_item[j].list_id = list[i].id

\* the outputs of the reducers, as a report carries them
Outputs(r) ==
  [ spend |-> << r.stats.totalGiftsGiven, r.stats.totalSpending, r.stats.mostExpensiveGift >>,
    lastMinute |-> << r.stats.lastMinutePurchases, r.stats.purchaseTiming.lastMinute >>,
    totalListsCreated |-> r.listStats.totalListsCreated,
    listWithMostItems |-> r.listStats.listWithMostItems,
    mostActiveDay |-> r.listStats.mostActiveDay,
    suggestedGiftCounts |-> r.listStats.suggestedGiftCounts ]

\* the empty or zero output of each reducer that reads a fetch that may fail
Defaults ==
  [ lastMinute |-> << 0, 0 >>, totalListsCreated |-> 0, listWithMostItems |-> None,
    mostActiveDay |-> None, suggestedGiftCounts |-> << >> ]

\* the outputs that are computed from the rows a fetch returns
DependsOn(q) ==
  CASE q \in {"lastMinutePurchases", "lastMinuteCount"} -> {"lastMinute"}
    [] q = "lists" -> {"totalListsCreated", "listWithMostItems"}
    [] q = "listItemsCount" -> {"listWithMostItems"}
    [] q = "userLists" -> {"mostActiveDay", "suggestedGiftCounts"}
    [] q \in {"userListItems", "itemsOnDay"} -> {"mostActiveDay"}
    [] q \in {"suggestedGifts", "suggesterProfiles"} -> {"suggestedGiftCounts"}

\* C12: when exactly one fetch that is not fatal fails, nothing is thrown and
\* the run ends with a report; in it every output computed from the failed
\* fetch is its empty or zero default, and every other output is what a run
\* without the failure returns for the same store.
C12_SingleFailureTolerated ==
  \A q \in NonCritical :
    failed = {q} =>
      /\ thrown = None
      /\ pc = "done" => result # None
      /\ Returned =>
           LET got == Outputs(result[1])
               ok == Outputs(SnapshotReport(Snapshot))
           IN \A f \in DOMAIN got :
                got[f] = IF f \in DependsOn(q) THEN Defaults[f] ELSE ok[f]

\* the fetches whose error the handler throws
Fatal == {"profile", "purchases", "lineItems"}

\* C13: when the fetch of the profile, of the purchases of the year or of
\* their line items fails, the handler throws, returns no report, and the
\* failed fetch is the last query it sent.
C13_FatalFailureAborts ==
  \A q \in Fatal :
    q \in failed =>
      /\ pc = "done"
      /\ result = None
      /\ thrown # None
      /\ issued[Len(issued)].q = q

\* the fetch of the line items failed after the two fetches before it succeeded
C13_Witness ==
  /\ "lineItems" \in failed
  /\ Len(issued) = 3
  /\ thrown = Some([ name |-> "Error", message |-> "Failed to fetch list items" ])

\* whether a row of the profiles table has the id the handler was called with
Resolves == \E i \in DOMAIN profiles : profiles[i].id = profileId

\* the class of the error of a failed fetch of the purchases or of their line
\* items (lines 51 and 73)
ComputationFailed == "Error"

\* C14: when the handler is called with an integer id that no profile has, it
\* returns no report and throws an error of a class of its own, other than
\* the class of the error of a failed fetch.
C14_ProfileNotFound ==
  (pc = "done" /\ Asked("profile") /\ profileId # NaN /\ ~Resolves) =>
    /\ result = None
    /\ thrown # None
    /\ thrown[1].name # ComputationFailed

\* a request that names no profile id, or one that is not a number, or a year
\* that is not a number
InvalidRequest ==
  /\ req # None
  /\ \/ ~IsNumeric(req[1].patientId)
     \/ req[1].year # << >> /\ ~IsNumeric(req[1].year)

\* C15: for a request whose profile id is missing or not a number, or whose
\* year is not a number, no query is ever sent, and the request is answered
\* as an invalid input, not as a failed computation.
C15_InvalidInputRejected ==
  InvalidRequest =>
    /\ issued = << >>
    /\ pc \in {"done", "rejected"} => Response.status = 400

\* C16: in a returned report every field has a value of its type, a number or
\* a text or an array, and none is null or missing, but for the thumbnail of
\* the most expensive gift, listWithMostItems and mostActiveDay; the
\* statistics that are not computed are 0 or '', and the items of a
\* mostActiveDay that is not null are an array.
C16_TypedValues ==
  Returned =>
    LET r == result[1] IN
    /\ r.profileId \in Nat /\ r.year \in Nat
    /\ r.personalityType = "" /\ r.personalityReason = ""
    /\ Stats.totalGiftsReceived = 0 /\ Stats.peopleExchangedWith = 0
    /\ Stats.mostPopularCategory = "" /\ Stats.giftGivingStreak = 0
    /\ Stats.santaScore = 0 /\ Stats.mostUsedRetailer = "" /\ Stats.homemadeGifts = 0
    /\ Stats.purchaseTiming.earlyBird = 0 /\ Stats.purchaseTiming.onTime = 0
    /\ Stats.totalGiftsGiven \in Nat /\ Stats.totalSpending \in Nat
    /\ Stats.lastMinutePurchases \in Nat /\ Stats.purchaseTiming.lastMinute \in Nat
    /\ Stats.mostExpensiveGift.title # NullStr /\ Stats.mostExpensiveGift.price \in Nat
    /\ ListStats.totalListsCreated \in Nat
    /\ ListStats.listWithMostItems # None =>
         /\ ListStats.listWithMostItems[1].name \notin {NullStr, ""}
         /\ ListStats.listWithMostItems[1].itemCount \in Nat
    /\ ListStats.mostActiveDay # None =>
         /\ ListStats.mostActiveDay[1].itemCount \in Nat
         /\ ListStats.mostActiveDay[1].items # None
    /\ \A i \in DOMAIN ListStats.suggestedGiftCounts :
         /\ ListStats.suggestedGiftCounts[i].count \in Nat
         /\ ListStats.suggestedGiftCounts[i].suggested_by # NullId
         /\ ListStats.suggestedGiftCounts[i].name # NoName

\* the states the store had from the call of the handler on
Existed == Range(history) \cup {Snapshot}

\* C17: a report returned by a run in which no query failed is the report of
\* one of the states the store had during the run, also when other processes
\* insert and delete rows between the queries.
C17_SingleSnapshot ==
  (Returned /\ failed = {}) => \E s \in Existed : result[1] = SnapshotReport(s)

\* C18: when the items of the most active day are fetched again and the fetch
\* succeeds, items holds exactly the items of the owned lists that have no
\* suggester and were created on the UTC day that won, in ascending order of
\* creation time, and as many as itemCount says, in every zone of the server.
C18_ItemsOfTheDay ==
  (Answered("itemsOnDay") /\ mostActiveDay # None) =>
    /\ itemsOnDay # None
    /\ LET items == itemsOnDay[1]
           day == mostActiveDay[1].date
       IN /\ Range(items) =
               { list_item[i] : i \in { j \in DOMAIN list_item :
                   /\ list_item[j].list_id \in OwnedListIds
                   /\ list_item[j].suggested_by = NullId
                   /\ list_item[j].created_at \div SecPerDay = day } }
          /\ \A i, j \in DOMAIN items : i < j => items[i].created_at <= items[j].created_at
          /\ Len(items) = mostActiveDay[1].itemCount

\* C19: when the lists the profile created in the year and their items are
\* fetched and at least one of those lists has an item, listWithMostItems is
\* not null; its itemCount is the number of all items of one of those lists
\* and no other of them has more items; its name is that list's name, or
\* 'Unnamed List' when the list has no name; for every list id, 0 included.
C19_ListWithMostItems ==
  (Answered("lists") /\ Answered("listItemsCount")) =>
    LET ids == FetchedListIds
    IN ids # << >> =>
         /\ listWithMostItems # None
         /\ \E i \in DOMAIN list :
              /\ list[i].id \in YearListIds
              /\ listWithMostItems[1].itemCount = CountOf(ids, list[i].id)
              /\ listWithMostItems[1].name =
                   IF list[i].name = NullStr THEN "Unnamed List" ELSE list[i].name
         /\ \A id \in YearListIds : CountOf(ids, id) <= listWithMostItems[1].itemCount

\* C20: in a report computed against a store that no one writes to, the
\* last-minute count of purchaseTiming is lastMinutePurchases, and
\* lastMinutePurchases is at most totalGiftsGiven.
C20_LastMinuteWithinTotal ==
  (Returned /\ history = << >>) =>
    /\ Stats.purchaseTiming.lastMinute = Stats.lastMinutePurchases
    /\ Stats.lastMinutePurchases <= Stats.totalGiftsGiven

\* a report that counts the line items of one purchase as last-minute and
\* those of another purchase of the year not
C20_Witness ==
  /\ Returned
  /\ history = << >>
  /\ 0 < Stats.lastMinutePurchases
  /\ Stats.lastMinutePurchases < Stats.totalGiftsGiven

====
